---- MODULE Spec2Model ----
(***************************************************************************)
(* Subscription service (em_subscription_test): the repository layer over  *)
(* the subscriptions table, the service layer (Create, GetByID, Update,    *)
(* Delete, GetTotalCost with its date helpers) and the GetSubscription     *)
(* HTTP handler.                                                           *)
(*                                                                         *)
(* A Go string is a sequence of one-character strings, so that             *)
(* strings.Split and strconv.Atoi are computed character by character.     *)
(* A Go pointer is a sequence of length 0 (nil) or 1 (the pointee).        *)
(***************************************************************************)
EXTENDS Integers, Sequences, FiniteSets

VARIABLES
    store,          \* the subscriptions table: id -> row
    nextId,         \* number of ids uuid.New() has handed out, plus one
    pc,             \* per request goroutine: where it is in its handler
    req,            \* per goroutine: the request of the GetTotalCost / GetSubscription call
    existing,       \* per goroutine: Update's local `existing` (after the field copies)
    updReq,         \* per goroutine: the id and req of the current/last Update call
    subscriptions,  \* per goroutine: GetTotalCost's local `subscriptions`
    resp,           \* per goroutine: what the last call returned
    listCalls,      \* per goroutine: repo.List calls made by the current/last GetTotalCost
    during,         \* per goroutine: totals of the store states seen since GetTotalCost was invoked
    ov              \* the harness that applies calculateOverlapMonths to drawn arguments

vars ==
    <<store, nextId, pc, req, existing, updReq, subscriptions, resp, listCalls, during, ov>>

(***************************************************************************)
(* Bounds of the model.                                                    *)
(***************************************************************************)
MaxIds == 2
MaxPrice == 2

(***************************************************************************)
(* Pointers and strings.                                                   *)
(***************************************************************************)
Nil == <<>>
Ptr(v) == <<v>>
Deref(p) == p[1]

Digits == {"0", "1", "2", "3", "4", "5", "6", "7", "8", "9"}

DigitVal(c) ==
    CASE c = "0" -> 0 [] c = "1" -> 1 [] c = "2" -> 2 [] c = "3" -> 3
      [] c = "4" -> 4 [] c = "5" -> 5 [] c = "6" -> 6 [] c = "7" -> 7
      [] c = "8" -> 8 [] c = "9" -> 9

\* strings.Split(s, "-"): the fields between the separators; n separators
\* give n+1 fields, the empty string gives one empty field.
SepPos(s) == {i \in 1..Len(s) : s[i] = "-"}

SepAt(s, k) ==
    IF k = 0 THEN 0
    ELSE IF k > Cardinality(SepPos(s)) THEN Len(s) + 1
    ELSE CHOOSE i \in SepPos(s) : Cardinality({j \in SepPos(s) : j <= i}) = k

Split(s) ==
    [k \in 1..(Cardinality(SepPos(s)) + 1) |->
        SubSeq(s, SepAt(s, k - 1) + 1, SepAt(s, k) - 1)]

\* strconv.Atoi(s): an optional sign then one or more decimal digits; on a
\* syntax error the value is 0 and err is set.
RECURSIVE DecVal(_)
DecVal(s) ==
    IF s = <<>> THEN 0
    ELSE DecVal(SubSeq(s, 1, Len(s) - 1)) * 10 + DigitVal(s[Len(s)])

Atoi(s) ==
    LET signed == s # <<>> /\ s[1] \in {"+", "-"}
        body   == IF signed THEN Tail(s) ELSE s
        ok     == body # <<>> /\ \A i \in 1..Len(body) : body[i] \in Digits
    IN  [err |-> ~ok,
         val |-> IF ~ok THEN 0
                 ELSE IF signed /\ s[1] = "-" THEN 0 - DecVal(body)
                 ELSE DecVal(body)]

\* isValidDateFormat with the upper limit of the year one too high.
isValidDateFormatYear10000(date) ==
    LET parts == Split(date)
    IN  IF Len(parts) # 2 THEN FALSE
        ELSE LET month == Atoi(parts[1])
                 year  == Atoi(parts[2])
             IN  IF month.err \/ year.err THEN FALSE
                 ELSE /\ month.val >= 1
                      /\ month.val <= 12
                      /\ year.val >= 1900
                      /\ year.val <= 10000

isValidDateFormat(date) ==
    LET parts == Split(date)
    IN  IF Len(parts) # 2 THEN FALSE
        ELSE LET month == Atoi(parts[1])
                 year  == Atoi(parts[2])
             IN  IF month.err \/ year.err THEN FALSE
                 ELSE /\ month.val >= 1
                      /\ month.val <= 12
                      /\ year.val >= 1900
                      /\ year.val <= 9999

(***************************************************************************)
(* time.Time values at day 1, 00:00 UTC: the (year, month) the instant     *)
(* falls in.  time.Date normalises a month outside 1..12 into the          *)
(* neighbouring years.                                                     *)
(***************************************************************************)
TimeDate(year, month) ==
    [year  |-> year + ((month - 1) \div 12),
     month |-> ((month - 1) % 12) + 1]

After(a, b) == a.year > b.year \/ (a.year = b.year /\ a.month > b.month)
Before(a, b) == a.year < b.year \/ (a.year = b.year /\ a.month < b.month)

\* parsePeriod(period): both Atoi errors are dropped; parts[1] of a string
\* without a separator is an index out of range, which panics.
Panic == [panic |-> TRUE]

parsePeriod(period) ==
    LET parts == Split(period)
    IN  IF Len(parts) < 2 THEN Panic
        ELSE TimeDate(Atoi(parts[2]).val, Atoi(parts[1]).val)

maxTime(a, b) == IF After(a, b) THEN a ELSE b
minTime(a, b) == IF Before(a, b) THEN a ELSE b

\* calculateOverlapMonths counting the months between the endpoints without
\* the end month itself.
calculateOverlapMonthsExclusive(periodStart, periodEnd, subStart, subEnd) ==
    LET overlapStart == maxTime(periodStart, subStart)
        overlapEnd   == minTime(periodEnd, subEnd)
    IN  IF After(overlapStart, overlapEnd) THEN 0
        ELSE (overlapEnd.year - overlapStart.year) * 12
                 + (overlapEnd.month - overlapStart.month)

\* calculateOverlapMonths with the years of the endpoints left out.
calculateOverlapMonthsNoYear(periodStart, periodEnd, subStart, subEnd) ==
    LET overlapStart == maxTime(periodStart, subStart)
        overlapEnd   == minTime(periodEnd, subEnd)
    IN  IF After(overlapStart, overlapEnd) THEN 0
        ELSE overlapEnd.month - overlapStart.month + 1

calculateOverlapMonths(periodStart, periodEnd, subStart, subEnd) ==
    LET overlapStart == maxTime(periodStart, subStart)
        overlapEnd   == minTime(periodEnd, subEnd)
    IN  IF After(overlapStart, overlapEnd) THEN 0
        ELSE LET yearDiff  == overlapEnd.year - overlapStart.year
                 monthDiff == overlapEnd.month - overlapStart.month
             IN  yearDiff * 12 + monthDiff + 1


(***************************************************************************)
(* The subscriptions table and the repository over it.  A row is           *)
(* [id, service_name, price, user_id, start_date, end_date]; end_date is a *)
(* pointer (Nil is SQL NULL).                                              *)
(***************************************************************************)
ErrNone == ""
ErrNoRows == "sql: no rows in result set"
ErrCheckPrice == "pq: violates check constraint subscriptions_price_check"
ErrTooLong == "pq: value too long for type character varying(7)"

\* The table without CHECK (price >= 0).
TableConstraintNoCheck(row) ==
    IF Len(row.start_date) > 7 THEN ErrTooLong
    ELSE IF row.end_date # Nil /\ Len(Deref(row.end_date)) > 7 THEN ErrTooLong
    ELSE ErrNone

\* CHECK (price >= 0) and the two VARCHAR(7) columns.
TableConstraint(row) ==
    IF row.price < 0 THEN ErrCheckPrice
    ELSE IF Len(row.start_date) > 7 THEN ErrTooLong
    ELSE IF row.end_date # Nil /\ Len(Deref(row.end_date)) > 7 THEN ErrTooLong
    ELSE ErrNone

\* INSERT INTO subscriptions ...
RepoCreate(st, subscription) ==
    IF TableConstraint(subscription) # ErrNone
    THEN [err |-> TableConstraint(subscription), store |-> st]
    ELSE [err |-> ErrNone,
          store |-> [i \in DOMAIN st \cup {subscription.id} |->
                        IF i = subscription.id THEN subscription ELSE st[i]]]

\* SELECT ... WHERE id = $1
RepoGetByID(st, id) ==
    IF id \in DOMAIN st
    THEN [err |-> ErrNone, row |-> Ptr(st[id])]
    ELSE [err |-> ErrNoRows, row |-> Nil]

\* The SELECT without its service_name condition.
RepoListAnyService(st, filters) ==
    {i \in DOMAIN st :
        filters.user_id # Nil => st[i].user_id = Deref(filters.user_id)}

\* SELECT ... WHERE 1=1 [AND user_id = $n] [AND service_name = $n]: the ids of
\* the rows the statement returns (SQL fixes no order among them).
RepoList(st, filters) ==
    {i \in DOMAIN st :
        /\ filters.user_id # Nil => st[i].user_id = Deref(filters.user_id)
        /\ filters.service_name # Nil => st[i].service_name = Deref(filters.service_name)}

\* UPDATE subscriptions SET ... WHERE id = $7: a statement that matches no
\* row changes nothing and is no error.
RepoUpdate(st, subscription) ==
    IF subscription.id \notin DOMAIN st THEN [err |-> ErrNone, store |-> st]
    ELSE IF TableConstraint(subscription) # ErrNone
    THEN [err |-> TableConstraint(subscription), store |-> st]
    ELSE [err |-> ErrNone,
          store |-> [st EXCEPT ![subscription.id] =
                        [@ EXCEPT !.service_name = subscription.service_name,
                                  !.price = subscription.price,
                                  !.user_id = subscription.user_id,
                                  !.start_date = subscription.start_date,
                                  !.end_date = subscription.end_date]]]

\* DELETE FROM subscriptions WHERE id = $1
RepoDelete(st, id) ==
    [err |-> ErrNone, store |-> [i \in DOMAIN st \ {id} |-> st[i]]]

\* The orders in which a result set of ids can come back.
Orders(ids) ==
    {s \in [1..Cardinality(ids) -> ids] : \A i, j \in DOMAIN s : i # j => s[i] # s[j]}

(***************************************************************************)
(* The service layer.                                                      *)
(***************************************************************************)
ErrStartDate == "start_date must be in MM-YYYY format"
ErrEndDate == "end_date must be in MM-YYYY format"
ErrPeriodFormat == "start_period and end_period must be in MM-YYYY format"
ErrPeriodRange == "start_period must be before or equal to end_period"
ErrNotFound == "not found"
ErrPanic == "panic: runtime error: index out of range"

Procs == {"p1", "p2"}

NoId == [wellFormed |-> FALSE, uuid |-> 0]
NoReq ==
    [op |-> "none", start_period |-> <<>>, end_period |-> <<>>,
     user_id |-> Nil, service_name |-> Nil, id |-> NoId]
NoResp == [op |-> "none", err |-> ErrNone, total |-> Nil, status |-> 0]
NoRow ==
    [id |-> 0, service_name |-> "", price |-> 0, user_id |-> "",
     start_date |-> <<>>, end_date |-> Nil, created_at |-> 0]
NoUpdate ==
    [id |-> 0,
     req |-> [service_name |-> Nil, price |-> Nil, user_id |-> Nil,
              start_date |-> Nil, end_date |-> Nil]]

Reply(op, err, total, status) ==
    [op |-> op, err |-> err, total |-> total, status |-> status]

\* The checks with a range test that also refuses start = end.
ValidatePeriodsStrict(r) ==
    IF ~isValidDateFormat(r.start_period) \/ ~isValidDateFormat(r.end_period)
    THEN ErrPeriodFormat
    ELSE IF ~Before(parsePeriod(r.start_period), parsePeriod(r.end_period))
    THEN ErrPeriodRange
    ELSE ErrNone

\* GetTotalCost, lines 152-168: the checks made before the store is touched.
ValidatePeriods(r) ==
    IF ~isValidDateFormat(r.start_period) \/ ~isValidDateFormat(r.end_period)
    THEN ErrPeriodFormat
    ELSE IF After(parsePeriod(r.start_period), parsePeriod(r.end_period))
    THEN ErrPeriodRange
    ELSE ErrNone

\* GetTotalCost, lines 170-176: the filters handed to repo.List.
Filters(r) == [user_id |-> r.user_id, service_name |-> r.service_name]

\* GetTotalCost, lines 186-195: what one iteration adds to totalCost, or
\* Panic when parsePeriod panics on the row's dates.
Adds(n) == [panic |-> FALSE, val |-> n]

\* The iteration with an open-ended subscription charged for every window
\* month it runs in.
ContributionProRated(startPeriod, endPeriod, sub) ==
    LET subStart == parsePeriod(sub.start_date)
    IN  IF subStart = Panic THEN Panic
        ELSE IF sub.end_date = Nil
        THEN Adds(sub.price *
                  calculateOverlapMonths(startPeriod, endPeriod, subStart, endPeriod))
        ELSE LET subEnd == parsePeriod(Deref(sub.end_date))
             IN  IF subEnd = Panic THEN Panic
                 ELSE Adds(sub.price *
                           calculateOverlapMonths(startPeriod, endPeriod, subStart, subEnd))

Contribution(startPeriod, endPeriod, sub) ==
    LET subStart == parsePeriod(sub.start_date)
    IN  IF subStart = Panic THEN Panic
        ELSE IF sub.end_date = Nil
        THEN IF ~Before(subStart, startPeriod) /\ ~After(subStart, endPeriod)
             THEN Adds(sub.price) ELSE Adds(0)
        ELSE LET subEnd == parsePeriod(Deref(sub.end_date))
             IN  IF subEnd = Panic THEN Panic
                 ELSE Adds(sub.price *
                           calculateOverlapMonths(startPeriod, endPeriod, subStart, subEnd))

\* GetTotalCost, lines 184-196: the loop over the listed rows.
RECURSIVE TotalCostLoop(_, _, _)
TotalCostLoop(startPeriod, endPeriod, subs) ==
    IF subs = <<>> THEN Adds(0)
    ELSE LET c    == Contribution(startPeriod, endPeriod, Head(subs))
             rest == TotalCostLoop(startPeriod, endPeriod, Tail(subs))
         IN  IF c = Panic \/ rest = Panic THEN Panic ELSE Adds(c.val + rest.val)

\* What GetTotalCost answers on the listed rows: the total, or the 500 that
\* gin.Recovery makes of a panic.
TotalCostReply(r, subs) ==
    LET t == TotalCostLoop(parsePeriod(r.start_period), parsePeriod(r.end_period), subs)
    IN  IF t = Panic THEN Reply("GetTotalCost", ErrPanic, Nil, 500)
        ELSE Reply("GetTotalCost", ErrNone, Ptr(t.val), 0)

\* The answer GetTotalCost would give on store state st, for each order of rows.
RepliesOn(st, r) ==
    {TotalCostReply(r, [k \in DOMAIN o |-> st[o[k]]]) : o \in Orders(RepoList(st, Filters(r)))}

\* The history kept for the calls in flight: every store state that exists
\* while a GetTotalCost call runs adds the answers it would give.
Observe(st) ==
    [q \in Procs |->
        IF pc[q] \in {"tc_list", "tc_loop"} THEN during[q] \cup RepliesOn(st, req[q])
        ELSE during[q]]

\* errors.Is(err, target): no error of this program wraps another, so an
\* error is its target only when it is that very error value.
ErrorsIs(err, target) == err = target

\* subscriptionService.GetByID: sql.ErrNoRows is answered with a new error.
ServiceGetByID(st, id) ==
    LET got == RepoGetByID(st, id)
    IN  IF got.err # ErrNone
        THEN IF ErrorsIs(got.err, ErrNoRows)
             THEN [err |-> ErrNotFound, row |-> Nil]
             ELSE [err |-> got.err, row |-> Nil]
        ELSE got

\* Handler.GetSubscription: the status it answers a service result with.
GetSubscriptionStatus(got) ==
    IF got.err # ErrNone
    THEN IF ErrorsIs(got.err, ErrNoRows) THEN 404 ELSE 500
    ELSE 200

\* The field copies with end_date copied whether or not the request has it.
ApplyUpdateEndDateAlways(row, r) ==
    [id           |-> row.id,
     service_name |-> IF r.service_name # Nil THEN Deref(r.service_name) ELSE row.service_name,
     price        |-> IF r.price # Nil THEN Deref(r.price) ELSE row.price,
     user_id      |-> IF r.user_id # Nil THEN Deref(r.user_id) ELSE row.user_id,
     start_date   |-> IF r.start_date # Nil THEN Deref(r.start_date) ELSE row.start_date,
     end_date     |-> r.end_date,
     created_at   |-> row.created_at]

\* subscriptionService.Update, lines 115-129: the request's fields copied
\* into the row that GetByID returned.
ApplyUpdate(row, r) ==
    [id           |-> row.id,
     service_name |-> IF r.service_name # Nil THEN Deref(r.service_name) ELSE row.service_name,
     price        |-> IF r.price # Nil THEN Deref(r.price) ELSE row.price,
     user_id      |-> IF r.user_id # Nil THEN Deref(r.user_id) ELSE row.user_id,
     start_date   |-> IF r.start_date # Nil THEN Deref(r.start_date) ELSE row.start_date,
     end_date     |-> IF r.end_date # Nil THEN r.end_date ELSE row.end_date,
     created_at   |-> row.created_at]

\* subscriptionService.Update, lines 103-108: the date checks.
ValidateUpdate(r) ==
    IF r.start_date # Nil /\ ~isValidDateFormat(Deref(r.start_date)) THEN ErrStartDate
    ELSE IF /\ r.end_date # Nil
            /\ Deref(r.end_date) # <<>>
            /\ ~isValidDateFormat(Deref(r.end_date)) THEN ErrEndDate
    ELSE ErrNone

\* subscriptionService.Create, lines 37-42: the date checks.
ValidateCreate(r) ==
    IF ~isValidDateFormat(r.start_date) THEN ErrStartDate
    ELSE IF r.end_date # Nil /\ ~isValidDateFormat(Deref(r.end_date)) THEN ErrEndDate
    ELSE ErrNone

(***************************************************************************)
(* The operations.  Each is run by a request goroutine p, which is idle,   *)
(* inside a call, or done (the call has returned and resp holds what it    *)
(* returned) until it ends.  A call that makes one statement on the store  *)
(* is one step; Update (SELECT, then UPDATE) and GetTotalCost (checks,     *)
(* SELECT, loop) are several.                                              *)
(***************************************************************************)
\* CreatedAt is time.Now(): a clock reading that differs from one Create to
\* the next, here the number of the Create.  UpdatedAt, which no operation
\* reads, is left out of the rows.
Create(p, r) ==
    /\ pc[p] = "idle"
    /\ nextId <= MaxIds
    /\ LET bad == ValidateCreate(r)
           subscription ==
               [id |-> nextId, service_name |-> r.service_name, price |-> r.price,
                user_id |-> r.user_id, start_date |-> r.start_date,
                end_date |-> r.end_date, created_at |-> nextId]
           res == RepoCreate(store, subscription)
       IN  IF bad # ErrNone
           THEN /\ resp' = [resp EXCEPT ![p] = Reply("Create", bad, Nil, 0)]
                /\ UNCHANGED <<store, nextId, during>>
           ELSE /\ store' = res.store
                /\ nextId' = nextId + 1
                /\ during' = Observe(res.store)
                /\ resp' = [resp EXCEPT ![p] = Reply("Create", res.err, Nil, 0)]
    /\ pc' = [pc EXCEPT ![p] = "done"]
    /\ UNCHANGED <<req, existing, subscriptions, listCalls, ov, updReq>>

\* Update up to and including repo.GetByID and the field copies.
Update(p, id, r) ==
    /\ pc[p] = "idle"
    /\ LET bad == ValidateUpdate(r)
           got == RepoGetByID(store, id)
       IN  IF bad # ErrNone
           THEN /\ resp' = [resp EXCEPT ![p] = Reply("Update", bad, Nil, 0)]
                /\ pc' = [pc EXCEPT ![p] = "done"]
                /\ UNCHANGED existing
           ELSE IF got.err # ErrNone
           THEN /\ resp' = [resp EXCEPT ![p] = Reply("Update", got.err, Nil, 0)]
                /\ pc' = [pc EXCEPT ![p] = "done"]
                /\ UNCHANGED existing
           ELSE /\ existing' = [existing EXCEPT ![p] = ApplyUpdate(Deref(got.row), r)]
                /\ pc' = [pc EXCEPT ![p] = "upd_write"]
                /\ UNCHANGED resp
    /\ updReq' = [updReq EXCEPT ![p] = [id |-> id, req |-> r]]
    /\ UNCHANGED <<store, nextId, req, subscriptions, listCalls, during, ov>>

\* Update from repo.Update on.
UpdateWrite(p) ==
    /\ pc[p] = "upd_write"
    /\ LET res == RepoUpdate(store, existing[p])
       IN  /\ store' = res.store
           /\ during' = Observe(res.store)
           /\ resp' = [resp EXCEPT ![p] = Reply("Update", res.err, Nil, 0)]
    /\ existing' = [existing EXCEPT ![p] = NoRow]
    /\ pc' = [pc EXCEPT ![p] = "done"]
    /\ UNCHANGED <<nextId, req, subscriptions, listCalls, ov, updReq>>

Delete(p, id) ==
    /\ pc[p] = "idle"
    /\ LET res == RepoDelete(store, id)
       IN  /\ store' = res.store
           /\ during' = Observe(res.store)
           /\ resp' = [resp EXCEPT ![p] = Reply("Delete", res.err, Nil, 0)]
    /\ pc' = [pc EXCEPT ![p] = "done"]
    /\ UNCHANGED <<nextId, req, existing, subscriptions, listCalls, ov, updReq>>

\* Handler.GetSubscription on the path parameter idStr: uuid.Parse, then the
\* service's GetByID.
GetSubscription(p, idStr) ==
    /\ pc[p] = "idle"
    /\ req' = [req EXCEPT ![p] = [NoReq EXCEPT !.op = "GetSubscription", !.id = idStr]]
    /\ IF ~idStr.wellFormed
       THEN resp' = [resp EXCEPT ![p] =
                        Reply("GetSubscription", "Invalid subscription ID", Nil, 400)]
       ELSE LET got == ServiceGetByID(store, idStr.uuid)
            IN  resp' = [resp EXCEPT ![p] =
                            Reply("GetSubscription", got.err, Nil, GetSubscriptionStatus(got))]
    /\ pc' = [pc EXCEPT ![p] = "done"]
    /\ UNCHANGED <<store, nextId, existing, subscriptions, listCalls, during, ov, updReq>>

\* GetTotalCost up to the call of repo.List.
GetTotalCost(p, r) ==
    /\ pc[p] = "idle"
    /\ req' = [req EXCEPT ![p] = r]
    /\ LET bad == ValidatePeriods(r)
       IN  IF bad # ErrNone
           THEN /\ resp' = [resp EXCEPT ![p] = Reply("GetTotalCost", bad, Nil, 0)]
                /\ pc' = [pc EXCEPT ![p] = "done"]
                /\ UNCHANGED during
           ELSE /\ during' = [during EXCEPT ![p] = RepliesOn(store, r)]
                /\ pc' = [pc EXCEPT ![p] = "tc_list"]
                /\ UNCHANGED resp
    /\ UNCHANGED <<store, nextId, existing, subscriptions, listCalls, ov, updReq>>

\* repo.List: one SELECT, answered from the table as it is at that moment.
TCList(p) ==
    /\ pc[p] = "tc_list"
    /\ \E o \in Orders(RepoList(store, Filters(req[p]))) :
          subscriptions' = [subscriptions EXCEPT ![p] = [k \in DOMAIN o |-> store[o[k]]]]
    /\ listCalls' = [listCalls EXCEPT ![p] = listCalls[p] + 1]
    /\ pc' = [pc EXCEPT ![p] = "tc_loop"]
    /\ UNCHANGED <<store, nextId, req, existing, resp, during, ov, updReq>>

\* The loop fetching each listed row again when it reaches it, rows deleted
\* since being skipped.
TCLoopLazy(p) ==
    /\ pc[p] = "tc_loop"
    /\ resp' = [resp EXCEPT ![p] =
                   TotalCostReply(req[p],
                       SelectSeq(subscriptions[p], LAMBDA sub : sub.id \in DOMAIN store))]
    /\ pc' = [pc EXCEPT ![p] = "done"]
    /\ UNCHANGED <<store, nextId, req, existing, subscriptions, listCalls, during, ov, updReq>>

\* The loop over the listed rows and the return.
TCLoop(p) ==
    /\ pc[p] = "tc_loop"
    /\ resp' = [resp EXCEPT ![p] = TotalCostReply(req[p], subscriptions[p])]
    /\ pc' = [pc EXCEPT ![p] = "done"]
    /\ UNCHANGED <<store, nextId, req, existing, subscriptions, listCalls, during, ov, updReq>>

\* The goroutine of a finished request ends; its locals are gone.
Return(p) ==
    /\ pc[p] = "done"
    /\ pc' = [pc EXCEPT ![p] = "idle"]
    /\ req' = [req EXCEPT ![p] = NoReq]
    /\ resp' = [resp EXCEPT ![p] = NoResp]
    /\ subscriptions' = [subscriptions EXCEPT ![p] = <<>>]
    /\ listCalls' = [listCalls EXCEPT ![p] = 0]
    /\ during' = [during EXCEPT ![p] = {}]
    /\ updReq' = [updReq EXCEPT ![p] = NoUpdate]
    /\ UNCHANGED <<store, nextId, existing, ov>>

(***************************************************************************)
(* Inputs.                                                                 *)
(***************************************************************************)
Dec2024 == <<"1", "2", "-", "2", "0", "2", "4">>
Jan2025 == <<"0", "1", "-", "2", "0", "2", "5">>
Jan2025Short == <<"1", "-", "2", "0", "2", "5">>
Mar2025 == <<"0", "3", "-", "2", "0", "2", "5">>
Month13 == <<"1", "3", "-", "2", "0", "2", "5">>
NoDash == <<"2", "0", "2", "5">>
Empty == <<>>
LongJan2025 == <<"0", "0", "1", "-", "2", "0", "2", "5">>

Ids == 1..MaxIds
IdStrings == {NoId} \cup [wellFormed : {TRUE}, uuid : Ids]

\* Two kinds of subscription are created: <<service, user, price, start>>.
Profiles == {<<"a", "u1", MaxPrice, Dec2024>>, <<"b", "u2", 1, Jan2025Short>>}

CreateRequests ==
    {[service_name |-> c[1], price |-> c[3], user_id |-> c[2], start_date |-> c[4],
      end_date |-> ed] : c \in Profiles, ed \in {Nil, Ptr(Mar2025)}}
    \cup
    {[service_name |-> "a", price |-> pr, user_id |-> "u1", start_date |-> sd,
      end_date |-> ed] :
        pr \in {0 - 1, 1}, sd \in {Dec2024, Month13, LongJan2025},
        ed \in {Nil, Ptr(Empty), Ptr(NoDash)}} 

UpdateRequests ==
    [service_name : {Nil}, price : {Nil, Ptr(0 - 1), Ptr(0)},
     user_id : {Nil}, start_date : {Nil, Ptr(NoDash)},
     end_date : {Nil, Ptr(Empty), Ptr(Month13)}]

TotalCostRequests ==
    [op : {"GetTotalCost"}, start_period : {Dec2024, Jan2025, Mar2025},
     end_period : {Dec2024, Jan2025, Mar2025},
     user_id : {Nil, Ptr("u1")}, service_name : {Nil, Ptr("b")}, id : {NoId}]

(***************************************************************************)
(* The service after construction: an empty table, no request in flight.   *)
(***************************************************************************)
OvIdle == [stage |-> "off"]

Init ==
    /\ store = <<>>
    /\ nextId = 1
    /\ pc = [p \in Procs |-> "idle"]
    /\ req = [p \in Procs |-> NoReq]
    /\ existing = [p \in Procs |-> NoRow]
    /\ updReq = [p \in Procs |-> NoUpdate]
    /\ subscriptions = [p \in Procs |-> <<>>]
    /\ resp = [p \in Procs |-> NoResp]
    /\ listCalls = [p \in Procs |-> 0]
    /\ during = [p \in Procs |-> {}]
    /\ ov = OvIdle

\* Requests served one at a time.
Next ==
    \/ \E r \in CreateRequests : Create("p1", r)
    \/ \E id \in Ids, r \in UpdateRequests : Update("p1", id, r)
    \/ UpdateWrite("p1")
    \/ \E id \in Ids : Delete("p1", id)
    \/ \E i \in IdStrings : GetSubscription("p1", i)
    \/ \E r \in TotalCostRequests : GetTotalCost("p1", r)
    \/ TCList("p1")
    \/ TCLoop("p1")
    \/ Return("p1")

Spec == Init /\ [][Next]_vars

(***************************************************************************)
(* Two request goroutines at once, on few kinds of row.                    *)
(***************************************************************************)
ConcCreateRequests ==
    {[service_name |-> "a", price |-> MaxPrice, user_id |-> "u1", start_date |-> Dec2024,
      end_date |-> Ptr(Mar2025)]}

ConcUpdateRequests ==
    {[service_name |-> Nil, price |-> Ptr(0), user_id |-> Nil, start_date |-> Nil,
      end_date |-> Nil]}

ConcTotalCostRequests ==
    {[NoReq EXCEPT !.op = "GetTotalCost", !.start_period = Dec2024, !.end_period = Mar2025]}

NextConc ==
    \E p \in Procs :
        \/ \E r \in ConcCreateRequests : Create(p, r)
        \/ \E id \in Ids, r \in ConcUpdateRequests : Update(p, id, r)
        \/ UpdateWrite(p)
        \/ \E id \in Ids : Delete(p, id)
        \/ \E r \in ConcTotalCostRequests : GetTotalCost(p, r)
        \/ TCList(p)
        \/ TCLoop(p)
        \/ Return(p)

SpecConc == Init /\ [][NextConc]_vars

(***************************************************************************)
(* Update alone: one goroutine, a table of at most two rows, requests that *)
(* set one field, none, all of them, or that fail.                         *)
(***************************************************************************)
NoFields ==
    [service_name |-> Nil, price |-> Nil, user_id |-> Nil, start_date |-> Nil,
     end_date |-> Nil]

FrameCreateRequests ==
    {[service_name |-> "a", price |-> MaxPrice, user_id |-> "u1", start_date |-> Dec2024,
      end_date |-> Nil]}

FrameUpdateRequests ==
    {NoFields,
     [NoFields EXCEPT !.service_name = Ptr("b")],
     [NoFields EXCEPT !.price = Ptr(0)],
     [NoFields EXCEPT !.user_id = Ptr("u2")],
     [NoFields EXCEPT !.start_date = Ptr(Jan2025)],
     [NoFields EXCEPT !.end_date = Ptr(Mar2025)],
     [service_name |-> Ptr("b"), price |-> Ptr(0), user_id |-> Ptr("u2"),
      start_date |-> Ptr(Jan2025), end_date |-> Ptr(Mar2025)],
     [NoFields EXCEPT !.start_date = Ptr(NoDash)],
     [NoFields EXCEPT !.end_date = Ptr(Month13)],
     [NoFields EXCEPT !.price = Ptr(-1)],
     [NoFields EXCEPT !.start_date = Ptr(LongJan2025)]}

NextFrame ==
    \/ \E r \in FrameCreateRequests : Cardinality(DOMAIN store) < 2 /\ Create("p1", r)
    \/ \E id \in Ids, r \in FrameUpdateRequests : Update("p1", id, r)
    \/ UpdateWrite("p1")
    \/ Return("p1")

SpecFrame == Init /\ [][NextFrame]_vars

(***************************************************************************)
(* Two goroutines that update at once: one sets only the price, the other  *)
(* only the end date.                                                      *)
(***************************************************************************)
RaceUpdateRequests ==
    {[NoFields EXCEPT !.price = Ptr(0)],
     [NoFields EXCEPT !.end_date = Ptr(Mar2025)]}

NextRace ==
    \E p \in Procs :
        \/ \E r \in FrameCreateRequests : Create(p, r)
        \/ \E id \in Ids, r \in RaceUpdateRequests : Update(p, id, r)
        \/ UpdateWrite(p)
        \/ Return(p)

SpecRace == Init /\ [][NextRace]_vars

(***************************************************************************)
(* GetTotalCost on period strings of every shape, over a table of at most  *)
(* MaxIds rows of one kind.                                                *)
(***************************************************************************)
Jan1900 == <<"0", "1", "-", "1", "9", "0", "0">>
Dec9999 == <<"1", "2", "-", "9", "9", "9", "9">>
PlusJan2025 == <<"+", "1", "-", "2", "0", "2", "5">>
Month00 == <<"0", "0", "-", "2", "0", "2", "5">>
Dec1899 == <<"1", "2", "-", "1", "8", "9", "9">>
Dec10000 == <<"1", "2", "-", "1", "0", "0", "0", "0">>
ThreeFields == <<"1", "-", "2", "-", "2", "0", "2", "5">>
NoMonth == <<"-", "2", "0", "2", "5">>
NoYear == <<"0", "1", "-">>
Letters == <<"j", "a", "n", "-", "2", "0", "2", "5">>

PeriodStrings ==
    {Jan1900, Dec9999, Dec2024, Jan2025, Jan2025Short, PlusJan2025,
     Month00, Month13, Dec1899, Dec10000, NoDash, ThreeFields, NoMonth, NoYear,
     Letters, Empty}

PeriodRequests ==
    [op : {"GetTotalCost"}, start_period : PeriodStrings, end_period : PeriodStrings,
     user_id : {Nil}, service_name : {Nil}, id : {NoId}]

PeriodCreateRequests ==
    {[service_name |-> "a", price |-> MaxPrice, user_id |-> "u1", start_date |-> Dec2024,
      end_date |-> Ptr(Jan2025)]}

NextPeriod ==
    \/ \E r \in PeriodCreateRequests : Create("p1", r)
    \/ \E r \in PeriodRequests : GetTotalCost("p1", r)
    \/ TCList("p1")
    \/ TCLoop("p1")
    \/ Return("p1")

SpecPeriod == Init /\ [][NextPeriod]_vars

(***************************************************************************)
(* calculateOverlapMonths applied to drawn months: the window             *)
(* [startPeriod, endPeriod], the same window with the end widerEnd, and    *)
(* the subscription [subStart, subEnd]; then the loop of GetTotalCost on   *)
(* that one closed subscription under both windows.                        *)
(***************************************************************************)
OverlapDates == {Jan1900, Dec2024, Jan2025, Jan2025Short, Mar2025, Dec9999}

InitOverlap ==
    /\ store = <<>>
    /\ nextId = 1
    /\ pc = [p \in Procs |-> "idle"]
    /\ req = [p \in Procs |-> NoReq]
    /\ existing = [p \in Procs |-> NoRow]
    /\ updReq = [p \in Procs |-> NoUpdate]
    /\ subscriptions = [p \in Procs |-> <<>>]
    /\ resp = [p \in Procs |-> NoResp]
    /\ listCalls = [p \in Procs |-> 0]
    /\ during = [p \in Procs |-> {}]
    /\ ov \in [stage : {"args"}, startPeriod : OverlapDates, endPeriod : OverlapDates,
               widerEnd : OverlapDates, subStart : OverlapDates, subEnd : OverlapDates,
               price : {0}, months : {0}, widerMonths : {0}, cost : {0}, widerCost : {0}]

OverlapCall ==
    /\ ov.stage = "args"
    /\ ov' = [ov EXCEPT
                !.stage = "narrow",
                !.months = calculateOverlapMonths(
                               parsePeriod(ov.startPeriod), parsePeriod(ov.endPeriod),
                               parsePeriod(ov.subStart), parsePeriod(ov.subEnd))]
    /\ UNCHANGED <<store, nextId, pc, req, existing, subscriptions, resp, listCalls, during, updReq>>

OverlapCallWider ==
    /\ ov.stage = "narrow"
    /\ ov' = [ov EXCEPT
                !.stage = "wider",
                !.widerMonths = calculateOverlapMonths(
                                    parsePeriod(ov.startPeriod), parsePeriod(ov.widerEnd),
                                    parsePeriod(ov.subStart), parsePeriod(ov.subEnd))]
    /\ UNCHANGED <<store, nextId, pc, req, existing, subscriptions, resp, listCalls, during, updReq>>

CostCalls(price) ==
    /\ ov.stage = "wider"
    /\ LET sub == [NoRow EXCEPT !.id = 1, !.price = price, !.start_date = ov.subStart,
                                !.end_date = Ptr(ov.subEnd)]
       IN  ov' = [ov EXCEPT
                    !.stage = "costs",
                    !.price = price,
                    !.cost = TotalCostLoop(parsePeriod(ov.startPeriod),
                                           parsePeriod(ov.endPeriod), <<sub>>).val,
                    !.widerCost = TotalCostLoop(parsePeriod(ov.startPeriod),
                                                parsePeriod(ov.widerEnd), <<sub>>).val]
    /\ UNCHANGED <<store, nextId, pc, req, existing, subscriptions, resp, listCalls, during, updReq>>

NextOverlap ==
    \/ OverlapCall
    \/ OverlapCallWider
    \/ \E price \in 0..MaxPrice : CostCalls(price)

SpecOverlap == InitOverlap /\ [][NextOverlap]_vars

(***************************************************************************)
(* The calendar the claims are stated in: the month strings of the inputs  *)
(* that name a calendar month, each with its year and month, labelled by   *)
(* hand.  Every other input string names no month.                         *)
(***************************************************************************)
MonthStrings ==
    {<<Jan1900, 1900, 1>>, <<Dec9999, 9999, 12>>, <<Dec2024, 2024, 12>>,
     <<Jan2025, 2025, 1>>, <<Jan2025Short, 2025, 1>>, <<PlusJan2025, 2025, 1>>,
     <<LongJan2025, 2025, 1>>, <<Mar2025, 2025, 3>>}

IsMonthString(s) == \E e \in MonthStrings : e[1] = s

\* The number of the calendar month s names, counted from month 1 of year 0.
MonthNumber(s) ==
    LET e == CHOOSE e \in MonthStrings : e[1] = s
    IN  e[2] * 12 + e[3] - 1

\* The calendar months that lie in both closed intervals.
SharedMonths(windowStart, windowEnd, subStart, subEnd) ==
    (MonthNumber(windowStart)..MonthNumber(windowEnd))
        \cap (MonthNumber(subStart)..MonthNumber(subEnd))

Max(a, b) == IF a >= b THEN a ELSE b
Min(a, b) == IF a <= b THEN a ELSE b

(***************************************************************************)
(* C1: calculateOverlapMonths returns the number of calendar months that   *)
(* lie in both [windowStart, windowEnd] and [subStart, subEnd], whatever   *)
(* the order of the four months: 0 when the later start is after the       *)
(* earlier end, and otherwise the month difference of those two plus one,  *)
(* which is at least 1.                                                    *)
(***************************************************************************)
C1_OverlapCountsSharedMonths ==
    ov.stage \in {"narrow", "wider", "costs"} =>
        LET effStart == Max(MonthNumber(ov.startPeriod), MonthNumber(ov.subStart))
            effEnd   == Min(MonthNumber(ov.endPeriod), MonthNumber(ov.subEnd))
        IN  /\ ov.months = Cardinality(SharedMonths(ov.startPeriod, ov.endPeriod,
                                                    ov.subStart, ov.subEnd))
            /\ effStart > effEnd => ov.months = 0
            /\ effStart <= effEnd => ov.months >= 1 /\ ov.months = effEnd - effStart + 1

\* A window from December 2024 that the subscription overlaps in four months,
\* across the turn of the year.
C1_Witness ==
    /\ ov.stage = "narrow"
    /\ ov.startPeriod = Jan1900
    /\ ov.subStart = Dec2024
    /\ ov.endPeriod = Mar2025
    /\ ov.subEnd = Dec9999
    /\ ov.months = 4

(***************************************************************************)
(* C9: with the window start and the subscription fixed, a later window    *)
(* end never gives fewer overlap months, and so never a smaller total for  *)
(* a closed subscription of price >= 0.                                    *)
(***************************************************************************)
C9_WiderWindowNeverLess ==
    /\ (/\ ov.stage \in {"wider", "costs"}
        /\ MonthNumber(ov.endPeriod) <= MonthNumber(ov.widerEnd))
       => ov.months <= ov.widerMonths
    /\ (/\ ov.stage = "costs"
        /\ MonthNumber(ov.endPeriod) <= MonthNumber(ov.widerEnd))
       => ov.cost <= ov.widerCost

\* The wider window gains months and cost.
C9_Witness ==
    /\ ov.stage = "costs"
    /\ MonthNumber(ov.endPeriod) < MonthNumber(ov.widerEnd)
    /\ ov.months >= 1
    /\ ov.months < ov.widerMonths
    /\ ov.cost < ov.widerCost

(***************************************************************************)
(* What the claims say GetTotalCost charges, in the calendar above.        *)
(***************************************************************************)
\* The stored rows that match the optional filters of request r.
Matching(st, r) ==
    {i \in DOMAIN st :
        /\ r.user_id = Nil \/ st[i].user_id = Deref(r.user_id)
        /\ r.service_name = Nil \/ st[i].service_name = Deref(r.service_name)}

StartsInWindow(row, r) ==
    /\ MonthNumber(r.start_period) <= MonthNumber(row.start_date)
    /\ MonthNumber(row.start_date) <= MonthNumber(r.end_period)

Share(row, r) ==
    IF row.end_date = Nil
    THEN IF StartsInWindow(row, r) THEN row.price ELSE 0
    ELSE row.price * Cardinality(SharedMonths(r.start_period, r.end_period,
                                              row.start_date, Deref(row.end_date)))

RECURSIVE SumShares(_, _, _)
SumShares(st, r, ids) ==
    IF ids = {} THEN 0
    ELSE LET i == CHOOSE i \in ids : TRUE
         IN  Share(st[i], r) + SumShares(st, r, ids \ {i})

RECURSIVE SumPrices(_, _)
SumPrices(st, ids) ==
    IF ids = {} THEN 0
    ELSE LET i == CHOOSE i \in ids : TRUE
         IN  st[i].price + SumPrices(st, ids \ {i})

ReturnedTotal(p) ==
    /\ pc[p] = "done"
    /\ resp[p].op = "GetTotalCost"
    /\ resp[p].total # Nil

(***************************************************************************)
(* C2: for a valid window, the total GetTotalCost returns is the sum, over *)
(* exactly the stored rows matching the request's user_id and service_name *)
(* filters, of each row's share; a closed row's share is its price times   *)
(* the months its interval has in common with the window.                  *)
(***************************************************************************)
C2_TotalIsSumOfShares ==
    \A p \in Procs :
        ReturnedTotal(p) =>
            Deref(resp[p].total) = SumShares(store, req[p], Matching(store, req[p]))

\* Two closed rows, the one of user u2 left out by the user_id filter; the
\* other runs from December 2024 to March 2025 and has three of its four
\* months in the window.
C2_Witness ==
    /\ ReturnedTotal("p1")
    /\ req["p1"].user_id = Ptr("u1")
    /\ req["p1"].start_period = Jan2025
    /\ req["p1"].end_period = Mar2025
    /\ DOMAIN store = {1, 2}
    /\ \A i \in DOMAIN store : store[i].end_date = Ptr(Mar2025) /\ store[i].price > 0
    /\ \E i \in DOMAIN store :
          /\ Matching(store, req["p1"]) = {i}
          /\ store[i].start_date = Dec2024
          /\ Deref(resp["p1"].total) = 3 * store[i].price

(***************************************************************************)
(* C3: an open-ended row (no end date) adds its price once if its start    *)
(* month lies in the window and nothing otherwise, also when it started    *)
(* before the window and still runs in it, whatever the window's length.   *)
(***************************************************************************)
C3_OpenEndedChargedOnceInWindow ==
    \A p \in Procs :
        (/\ ReturnedTotal(p)
         /\ \A i \in Matching(store, req[p]) : store[i].end_date = Nil)
        => Deref(resp[p].total) =
               SumPrices(store, {i \in Matching(store, req[p]) :
                                    StartsInWindow(store[i], req[p])})

\* An open-ended row that started in December 2024, priced above 0, and a
\* window from January to March 2025: nothing is charged.
C3_Witness ==
    /\ ReturnedTotal("p1")
    /\ req["p1"].start_period = Jan2025
    /\ req["p1"].end_period = Mar2025
    /\ Matching(store, req["p1"]) # {}
    /\ \A i \in Matching(store, req["p1"]) :
          /\ store[i].end_date = Nil
          /\ store[i].start_date = Dec2024
          /\ store[i].price > 0
    /\ resp["p1"].total = Ptr(0)

(***************************************************************************)
(* C4: every stored row has a start_date that is a valid month string and  *)
(* an end_date that is absent or a valid month string, so that no other    *)
(* string reaches the loop of GetTotalCost.                                *)
(***************************************************************************)
C4_StoredDatesAreMonths ==
    \A i \in DOMAIN store :
        /\ IsMonthString(store[i].start_date)
        /\ store[i].end_date = Nil \/ IsMonthString(Deref(store[i].end_date))

(***************************************************************************)
(* C7: every stored row has price >= 0, and every total GetTotalCost       *)
(* returns is >= 0.                                                        *)
(***************************************************************************)
C7_PricesAndTotalsNonNegative ==
    /\ \A i \in DOMAIN store : store[i].price >= 0
    /\ \A p \in Procs : ReturnedTotal(p) => Deref(resp[p].total) >= 0

\* An Update to a negative price was refused by the table, and the row
\* keeps its price.
C7_Witness ==
    /\ pc["p1"] = "done"
    /\ resp["p1"].op = "Update"
    /\ resp["p1"].err = ErrCheckPrice
    /\ store # <<>>

(***************************************************************************)
(* C8: a GetSubscription request with a well-formed id that has no stored  *)
(* row is answered 404, and no GetSubscription request is answered 500     *)
(* while the store works.                                                  *)
(***************************************************************************)
C8_MissingIsNotFound ==
    \A p \in Procs :
        (pc[p] = "done" /\ resp[p].op = "GetSubscription")
        => /\ (req[p].id.wellFormed /\ req[p].id.uuid \notin DOMAIN store)
              => resp[p].status = 404
           /\ resp[p].status # 500

AnsweredTotalCost(p) == pc[p] = "done" /\ resp[p].op = "GetTotalCost"

(***************************************************************************)
(* C5: with two well-formed periods, GetTotalCost fails with the range     *)
(* error exactly when start_period is a later month than end_period (equal *)
(* months are accepted), and when it does the store was not listed and no  *)
(* total is returned.                                                      *)
(***************************************************************************)
C5_RangeErrorIffStartAfterEnd ==
    \A p \in Procs :
        (/\ AnsweredTotalCost(p)
         /\ IsMonthString(req[p].start_period)
         /\ IsMonthString(req[p].end_period))
        => /\ resp[p].err = ErrPeriodRange
              <=> MonthNumber(req[p].start_period) > MonthNumber(req[p].end_period)
           /\ resp[p].err = ErrPeriodRange => listCalls[p] = 0 /\ resp[p].total = Nil
           /\ resp[p].err # ErrPeriodRange => resp[p].err = ErrNone /\ resp[p].total # Nil

\* January 2025 to December 2024 is refused.
C5_Witness ==
    /\ AnsweredTotalCost("p1")
    /\ req["p1"].start_period = Jan2025Short
    /\ req["p1"].end_period = Dec2024
    /\ resp["p1"].err = ErrPeriodRange
    /\ store # <<>>

(***************************************************************************)
(* C6: GetTotalCost fails with the format error, without listing the store *)
(* and without a total, exactly when start_period or end_period is not two *)
(* integer fields around one '-', month in 1..12 and year in 1900..9999.   *)
(***************************************************************************)
C6_FormatErrorIffNotMonthString ==
    \A p \in Procs :
        AnsweredTotalCost(p)
        => /\ resp[p].err = ErrPeriodFormat
              <=> \/ ~IsMonthString(req[p].start_period)
                  \/ ~IsMonthString(req[p].end_period)
           /\ resp[p].err = ErrPeriodFormat => listCalls[p] = 0 /\ resp[p].total = Nil

\* Month 1 of year 1900 is accepted as the start and year 10000 refused as
\* the end.
C6_Witness ==
    /\ AnsweredTotalCost("p1")
    /\ req["p1"].start_period = Jan1900
    /\ req["p1"].end_period = Dec10000
    /\ resp["p1"].err = ErrPeriodFormat
    /\ store # <<>>

(***************************************************************************)
(* C10: a GetTotalCost call that runs while other requests create, update  *)
(* and delete rows returns what one store state that existed between its   *)
(* invocation and its return gives; it lists the store once and no step of *)
(* it changes the store.                                                   *)
(***************************************************************************)
TotalCostStep(p) ==
    \/ pc[p] = "idle" /\ req'[p].op = "GetTotalCost"
    \/ pc[p] \in {"tc_list", "tc_loop"} /\ pc'[p] # pc[p]

AnswerFromOneState(p) ==
    (AnsweredTotalCost(p) /\ resp[p].err \in {ErrNone, ErrPanic})
    => resp[p] \in during[p] /\ listCalls[p] = 1

C10_TotalOfOneStoreState ==
    [][\A p \in Procs :
          /\ TotalCostStep(p) => store' = store
          /\ AnswerFromOneState(p)']_vars

\* The answer is that of the store as listed, and the store has changed
\* since: it now gives another answer.
C10_Witness ==
    /\ AnsweredTotalCost("p1")
    /\ resp["p1"].total # Nil
    /\ Deref(resp["p1"].total) > 0
    /\ resp["p1"] \in during["p1"]
    /\ resp["p1"] \notin RepliesOn(store, req["p1"])
    /\ Cardinality(during["p1"]) >= 3

(***************************************************************************)
(* Update's effect on the table.                                           *)
(***************************************************************************)
UpdateFields == {"service_name", "price", "user_id", "start_date", "end_date"}

\* The value a request that carries field f asks the row to have.
Requested(r, f) == IF f = "end_date" THEN r[f] ELSE Deref(r[f])

\* before -> after is what a successful Update(id, r) may do to the table.
FrameOf(before, after, id, r) ==
    /\ DOMAIN after = DOMAIN before
    /\ id \in DOMAIN before
    /\ \A i \in DOMAIN before \ {id} : after[i] = before[i]
    /\ after[id].id = before[id].id
    /\ after[id].created_at = before[id].created_at
    /\ \A f \in UpdateFields :
          after[id][f] = IF r[f] = Nil THEN before[id][f] ELSE Requested(r, f)

UpdateReturns(p) == pc[p] # "done" /\ pc'[p] = "done" /\ resp'[p].op = "Update"

\* C11: an Update that runs without interleaving and succeeds changes, in the
\* row of its id, only the fields its request carries (to the requested
\* values); the id, created_at, the absent fields, every other row and the
\* set of rows stay as they were.  An Update that fails, and the part of an
\* Update before its UPDATE statement, leave the table as it was.
C11_UpdateChangesOnlyRequestedFields ==
    [][\A p \in Procs :
          /\ (pc[p] = "idle" /\ pc'[p] = "upd_write") => store' = store
          /\ UpdateReturns(p) =>
                IF resp'[p].err # ErrNone
                THEN store' = store
                ELSE FrameOf(store, store', updReq'[p].id, updReq'[p].req)]_vars

\* An Update of the price alone has succeeded on one of two rows: that row
\* has the new price and its other fields, the other row has the old price.
C11_Witness ==
    /\ pc["p1"] = "done"
    /\ resp["p1"].op = "Update"
    /\ resp["p1"].err = ErrNone
    /\ updReq["p1"].req = [NoFields EXCEPT !.price = Ptr(0)]
    /\ DOMAIN store = {1, 2}
    /\ updReq["p1"].id = 1
    /\ store[1].price = 0
    /\ store[1].end_date = Ptr(Mar2025)
    /\ store[2].price = MaxPrice

\* The fields a request carries.
Carried(r) == {f \in UpdateFields : r[f] # Nil}

SucceededUpdate(p) ==
    pc[p] = "done" /\ resp[p].op = "Update" /\ resp[p].err = ErrNone

\* C12: when two Updates of one row that carry disjoint sets of fields have
\* both returned without error, the row has the value each of them asked for
\* in each field it carries.
C12_DisjointUpdatesBothTakeEffect ==
    \A p \in Procs, q \in Procs :
        (/\ p # q
         /\ SucceededUpdate(p)
         /\ SucceededUpdate(q)
         /\ updReq[p].id = updReq[q].id
         /\ Carried(updReq[p].req) \cap Carried(updReq[q].req) = {})
        => /\ updReq[p].id \in DOMAIN store
           /\ \A f \in Carried(updReq[p].req) :
                 store[updReq[p].id][f] = Requested(updReq[p].req, f)
====
